---- MODULE Spec2Model ----
(***************************************************************************)
(* Model of the class-list formatter of eslint-plugin-simple-tailwindcss   *)
(* (utils/class-processor.ts together with config/group-definitions.ts).   *)
(*                                                                         *)
(* A JavaScript string is a sequence of characters; a character is written *)
(* as a one-character TLA+ string, except the two non-ASCII characters of  *)
(* the alphabet, which are written by their code point ("U+00E9" is the    *)
(* precomposed e-acute, "U+0301" the combining acute accent).              *)
(***************************************************************************)
EXTENDS Integers, Sequences, FiniteSets, TLC

(***************************************************************************)
(* Characters and generic string helpers                                   *)
(***************************************************************************)

\* The characters matched by \s (and removed by String.prototype.trim)
\* that occur in the modelled alphabet: space and tab.
WhiteSpace == {" ", "\t"}

IsWhiteSpace(ch) == ch \in WhiteSpace

RECURSIVE JoinSpace(_)
\* Array.prototype.join(' ').
JoinSpace(ss) ==
  IF ss = <<>> THEN <<>>
  ELSE IF Len(ss) = 1 THEN Head(ss)
  ELSE Head(ss) \o <<" ">> \o JoinSpace(Tail(ss))

\* String.prototype.slice(from) with a 0-based index.
Slice(s, from) == SubSeq(s, from + 1, Len(s))

RECURSIVE TrimStart(_)
TrimStart(s) ==
  IF s # <<>> /\ IsWhiteSpace(Head(s)) THEN TrimStart(Tail(s)) ELSE s

RECURSIVE TrimEnd(_)
TrimEnd(s) ==
  IF s # <<>> /\ IsWhiteSpace(s[Len(s)])
  THEN TrimEnd(SubSeq(s, 1, Len(s) - 1))
  ELSE s

\* String.prototype.trim().
Trim(s) == TrimEnd(TrimStart(s))

\* Index of the first whitespace character of s, 0 if there is none.
FirstWhiteSpace(s) ==
  IF \E i \in 1..Len(s) : IsWhiteSpace(s[i])
  THEN CHOOSE i \in 1..Len(s) :
         /\ IsWhiteSpace(s[i])
         /\ \A k \in 1..(i - 1) : ~IsWhiteSpace(s[k])
  ELSE 0

\* Last index of the whitespace run that starts at index i.
RunEnd(s, i) ==
  CHOOSE j \in i..Len(s) :
    /\ \A k \in i..j : IsWhiteSpace(s[k])
    /\ (j = Len(s) \/ ~IsWhiteSpace(s[j + 1]))

\* value.replace(WHITESPACE_RE, ' ') with WHITESPACE_RE = /\s+/ : the
\* regular expression carries no g flag, so String.prototype.replace
\* substitutes the first (leftmost, longest) match only.
ReplaceWhitespaceRe(s) ==
  LET i == FirstWhiteSpace(s) IN
    IF i = 0 THEN s
    ELSE SubSeq(s, 1, i - 1) \o <<" ">> \o SubSeq(s, RunEnd(s, i) + 1, Len(s))

collapseWhitespace(value) == ReplaceWhitespaceRe(Trim(value))

RECURSIVE SplitOn(_, _, _)
\* String.prototype.split on single separator characters: cur is the
\* piece being accumulated; adjacent separators yield empty pieces.
SplitOn(s, seps, cur) ==
  IF s = <<>> THEN <<cur>>
  ELSE IF Head(s) \in seps THEN <<cur>> \o SplitOn(Tail(s), seps, <<>>)
  ELSE SplitOn(Tail(s), seps, Append(cur, Head(s)))

NonEmpty(s) == s # <<>>

\* collapsed.split(' ').filter(Boolean)
SplitTokens(collapsed) == SelectSeq(SplitOn(collapsed, {" "}, <<>>), NonEmpty)

(***************************************************************************)
(* Group registry (config/group-definitions.ts) and its compilation        *)
(***************************************************************************)

\* Spellings used by the patterns and by the modelled class lists.
S_flex == <<"f", "l", "e", "x">>
S_w == <<"w", "-">>
S_bg == <<"b", "g", "-">>
S_gap == <<"g", "a", "p", "-">>

\* The pattern strings of the registries of the model.  The display
\* alternation of the layout group is the one of line 23; the other
\* patterns are copied as they stand.
P_display == "^(?:block|inline-block|inline|flex|inline-flex|grid|inline-grid|table|inline-table|table-caption|table-cell|table-column|table-row|flow-root|contents|list-item|hidden)$"

\* new RegExp(pattern): the compiled form of each pattern string.  kind
\* "exact" is ^(?:l1|l2|...)$, "prefix" is ^(?:l1|l2|...), "any" is .* .
\* Of the alternatives of P_display only those that can be spelled with
\* the alphabet of the model are listed.
NewRegExp(pattern) ==
  CASE pattern = P_display -> [kind |-> "exact", lits |-> {S_flex}]
    [] pattern = "^gap-" -> [kind |-> "prefix", lits |-> {S_gap}]
    [] pattern = "^w-" -> [kind |-> "prefix", lits |-> {S_w}]
    [] pattern = "^bg-" -> [kind |-> "prefix", lits |-> {S_bg}]
    [] pattern = ".*" -> [kind |-> "any", lits |-> {}]

IsPrefix(p, s) == Len(p) <= Len(s) /\ SubSeq(s, 1, Len(p)) = p

\* RegExp.prototype.test for a regular expression without g or y flag
\* (no lastIndex state).  $ without the m flag matches at the end of the
\* input only, and . matches every character of the alphabet.
RegExpTest(regex, token) ==
  CASE regex.kind = "exact" -> token \in regex.lits
    [] regex.kind = "prefix" -> \E p \in regex.lits : IsPrefix(p, token)
    [] regex.kind = "any" -> TRUE

\* The built-in registry: the fifteen groups in declaration order, each
\* with those of its matchers that can match a class of the model.
defaultGroupDefinitions ==
  << [name |-> "layout", matchers |-> <<P_display>>],
     [name |-> "flex-grid", matchers |-> <<"^gap-">>],
     [name |-> "spacing", matchers |-> <<>>],
     [name |-> "sizing", matchers |-> <<"^w-">>],
     [name |-> "typography", matchers |-> <<>>],
     [name |-> "background", matchers |-> <<"^bg-">>],
     [name |-> "borders", matchers |-> <<>>],
     [name |-> "effects", matchers |-> <<>>],
     [name |-> "filters", matchers |-> <<>>],
     [name |-> "tables", matchers |-> <<>>],
     [name |-> "transforms", matchers |-> <<>>],
     [name |-> "transitions", matchers |-> <<>>],
     [name |-> "interactivity", matchers |-> <<>>],
     [name |-> "svg", matchers |-> <<>>],
     [name |-> "accessibility", matchers |-> <<>>] >>

\* The caller-supplied registry of the test "allows overriding group
\* ordering": every class starting with bg- matches both groups.
overrideGroupDefinitions ==
  << [name |-> "backgrounds-first", matchers |-> <<"^bg-">>],
     [name |-> "layout", matchers |-> <<".*">>] >>

\* A caller-supplied registry whose first group has two matchers and
\* whose groups overlap on bg- classes without covering every class.
overlapGroupDefinitions ==
  << [name |-> "first", matchers |-> <<"^w-", "^bg-">>],
     [name |-> "second", matchers |-> <<"^bg-", "^gap-">>],
     [name |-> "third", matchers |-> <<P_display>>] >>

MapRegExp(matchers) == [k \in DOMAIN matchers |-> NewRegExp(matchers[k])]

\* Array.prototype.map passes the 0-based index of the definition.
compileGroupDefinitions(definitions) ==
  [i \in DOMAIN definitions |->
     [name |-> definitions[i].name,
      weight |-> i - 1,
      regexes |-> MapRegExp(definitions[i].matchers)]]

defaultCompiledGroups == compileGroupDefinitions(defaultGroupDefinitions)

\* regexes.some(regex => regex.test(token))
GroupMatches(group, token) ==
  \E k \in DOMAIN group.regexes : RegExpTest(group.regexes[k], token)

RECURSIVE ResolveFrom(_, _, _)
\* The for..of loop of resolveGroupWeight from the i-th group on.
ResolveFrom(token, compiledGroups, i) ==
  IF i > Len(compiledGroups) THEN Len(compiledGroups)
  ELSE IF GroupMatches(compiledGroups[i], token) THEN compiledGroups[i].weight
  ELSE ResolveFrom(token, compiledGroups, i + 1)

\* resolveGroupWeight preferring the last matching group.
resolveGroupWeight_LastMatch(token, compiledGroups) ==
  LET matching == { g \in DOMAIN compiledGroups :
                      GroupMatches(compiledGroups[g], token) }
  IN IF matching = {} THEN Len(compiledGroups)
     ELSE compiledGroups[CHOOSE g \in matching : \A k \in matching : k <= g].weight

resolveGroupWeight(token, compiledGroups) == ResolveFrom(token, compiledGroups, 1)

\* createClassFormatter appending the built-in groups to the caller's.
createClassFormatter_MergeDefaults(groupDefinitions) ==
  IF Len(groupDefinitions) > 0
  THEN compileGroupDefinitions(groupDefinitions \o defaultGroupDefinitions)
  ELSE defaultCompiledGroups

\* createClassFormatter: the registry the returned formatter is bound to.
\* An absent groupDefinitions option is modelled as the empty list.
createClassFormatter(groupDefinitions) ==
  IF Len(groupDefinitions) > 0
  THEN compileGroupDefinitions(groupDefinitions)
  ELSE defaultCompiledGroups

(***************************************************************************)
(* Token normalizer                                                        *)
(***************************************************************************)

removeImportantPrefix(token) ==
  IF token # <<>> /\ Head(token) = "!"
  THEN [important |-> TRUE, value |-> Slice(token, 1)]
  ELSE [important |-> FALSE, value |-> token]

RECURSIVE StripScan(_, _, _)
\* The loop of stripVariants at 0-based index i with the given depth.
StripScan(token, i, depth) ==
  IF i < 0 THEN token
  ELSE LET char == token[i + 1] IN
    IF char = "]" THEN StripScan(token, i - 1, depth + 1)
    ELSE IF char = "[" THEN
      StripScan(token, i - 1, IF depth > 0 THEN depth - 1 ELSE depth)
    ELSE IF char = ":" /\ depth = 0 THEN Slice(token, i + 1)
    ELSE StripScan(token, i - 1, depth)

\* stripVariants cutting at the last colon, brackets or not.
stripVariants_LastColon(token) ==
  LET colons == { i \in DOMAIN token : token[i] = ":" }
  IN IF colons = {} THEN token
     ELSE SubSeq(token, (CHOOSE i \in colons : \A k \in colons : k <= i) + 1,
                 Len(token))

stripVariants(token) == StripScan(token, Len(token) - 1, 0)

\* normalizeToken.  The cache is a Map private to one formatWithGroups
\* call, keyed by the raw token, holding exactly the record computed
\* here from (token, compiledGroups); a hit returns what a miss computes,
\* so the memoized function is this operator.
normalizeToken(token, compiledGroups) ==
  LET importantStrip == removeImportantPrefix(token)
      base == stripVariants(importantStrip.value)
  IN [important |-> importantStrip.important,
      base |-> base,
      groupWeight |-> resolveGroupWeight(base, compiledGroups)]

(***************************************************************************)
(* String.prototype.localeCompare                                          *)
(***************************************************************************)

\* Canonical decomposition of one character: the precomposed e-acute
\* decomposes into e followed by the combining acute accent.
Decompose(ch) == IF ch = "U+00E9" THEN <<"e", "U+0301">> ELSE <<ch>>

RECURSIVE NFD(_)
NFD(s) == IF s = <<>> THEN <<>> ELSE Decompose(Head(s)) \o NFD(Tail(s))

IsCombining(ch) == ch = "U+0301"

NotCombining(ch) == ~IsCombining(ch)

\* Order of the characters of the alphabet in the collation used by
\* localeCompare (whitespace, then punctuation, then digits, then
\* letters in alphabetical order); the combining accent carries no
\* primary weight and is ranked below every other character.
CollationRank(ch) ==
  CASE ch = "U+0301" -> 0
    [] ch = "\t" -> 1
    [] ch = " " -> 2
    [] ch = "-" -> 3
    [] ch = "," -> 4
    [] ch = ":" -> 5
    [] ch = "!" -> 6
    [] ch = "'" -> 7
    [] ch = "\"" -> 8
    [] ch = "(" -> 9
    [] ch = ")" -> 10
    [] ch = "[" -> 11
    [] ch = "]" -> 12
    [] ch = "\\" -> 13
    [] ch = "1" -> 14
    [] ch = "a" -> 15
    [] ch = "b" -> 16
    [] ch = "c" -> 17
    [] ch = "e" -> 18
    [] ch = "f" -> 19
    [] ch = "g" -> 20
    [] ch = "h" -> 21
    [] ch = "l" -> 22
    [] ch = "n" -> 23
    [] ch = "p" -> 24
    [] ch = "w" -> 25
    [] ch = "x" -> 26

RECURSIVE LexCompare(_, _)
\* Lexicographic comparison of two character sequences by rank.
LexCompare(a, b) ==
  IF a = <<>> /\ b = <<>> THEN 0
  ELSE IF a = <<>> THEN -1
  ELSE IF b = <<>> THEN 1
  ELSE IF CollationRank(Head(a)) < CollationRank(Head(b)) THEN -1
  ELSE IF CollationRank(Head(a)) > CollationRank(Head(b)) THEN 1
  ELSE LexCompare(Tail(a), Tail(b))

\* a.localeCompare(b): both strings are compared in canonically
\* decomposed form, first by their base characters and, when these are
\* equal, with their accents.  ECMA-262 requires 0 for canonically
\* equivalent strings, so 0 does not imply that a and b are the same
\* sequence of code units.
localeCompare(a, b) ==
  LET primary == LexCompare(SelectSeq(NFD(a), NotCombining),
                            SelectSeq(NFD(b), NotCombining))
  IN IF primary # 0 THEN primary ELSE LexCompare(NFD(a), NFD(b))

(***************************************************************************)
(* Comparator and sort                                                     *)
(***************************************************************************)

\* compareClasses without the comparison of the group weights.
compareClasses_NoWeight(a, b, compiledGroups) ==
  LET normalizedA == normalizeToken(a, compiledGroups)
      normalizedB == normalizeToken(b, compiledGroups)
      baseComparison == localeCompare(normalizedA.base, normalizedB.base)
  IN IF baseComparison # 0 THEN baseComparison
     ELSE IF normalizedA.important # normalizedB.important
       THEN (IF normalizedA.important THEN 1 ELSE -1)
     ELSE localeCompare(a, b)

\* compareClasses placing the important token of a tie first.
compareClasses_ImportantFirst(a, b, compiledGroups) ==
  LET normalizedA == normalizeToken(a, compiledGroups)
      normalizedB == normalizeToken(b, compiledGroups)
      baseComparison == localeCompare(normalizedA.base, normalizedB.base)
  IN IF normalizedA.groupWeight # normalizedB.groupWeight
       THEN normalizedA.groupWeight - normalizedB.groupWeight
     ELSE IF baseComparison # 0 THEN baseComparison
     ELSE IF normalizedA.important # normalizedB.important
       THEN (IF normalizedA.important THEN -1 ELSE 1)
     ELSE localeCompare(a, b)

\* compareClasses without the comparison of the bases.
compareClasses_NoBase(a, b, compiledGroups) ==
  LET normalizedA == normalizeToken(a, compiledGroups)
      normalizedB == normalizeToken(b, compiledGroups)
  IN IF normalizedA.groupWeight # normalizedB.groupWeight
       THEN normalizedA.groupWeight - normalizedB.groupWeight
     ELSE IF normalizedA.important # normalizedB.important
       THEN (IF normalizedA.important THEN 1 ELSE -1)
     ELSE localeCompare(a, b)

compareClasses(a, b, compiledGroups) ==
  LET normalizedA == normalizeToken(a, compiledGroups)
      normalizedB == normalizeToken(b, compiledGroups)
      baseComparison == localeCompare(normalizedA.base, normalizedB.base)
  IN IF normalizedA.groupWeight # normalizedB.groupWeight
       THEN normalizedA.groupWeight - normalizedB.groupWeight
     ELSE IF baseComparison # 0 THEN baseComparison
     ELSE IF normalizedA.important # normalizedB.important
       THEN (IF normalizedA.important THEN 1 ELSE -1)
     ELSE localeCompare(a, b)

RECURSIVE InsertToken(_, _, _)
\* Inserts x into the sorted sequence: behind every element that does
\* not compare greater than x.
InsertToken(sorted, x, compiledGroups) ==
  IF sorted = <<>> THEN <<x>>
  ELSE IF compareClasses(sorted[Len(sorted)], x, compiledGroups) <= 0
    THEN Append(sorted, x)
  ELSE Append(InsertToken(SubSeq(sorted, 1, Len(sorted) - 1), x, compiledGroups),
              sorted[Len(sorted)])

RECURSIVE SortFrom(_, _, _)
SortFrom(sorted, rest, compiledGroups) ==
  IF rest = <<>> THEN sorted
  ELSE SortFrom(InsertToken(sorted, Head(rest), compiledGroups), Tail(rest),
                compiledGroups)

\* [...tokens].sort((a, b) => compareClasses(a, b, compiledGroups, cache)).
\* Array.prototype.sort is stable (ES2019) and the comparator is a
\* consistent comparator, so the result is the stable insertion sort.
SortTokens(tokens, compiledGroups) == SortFrom(<<>>, tokens, compiledGroups)

(***************************************************************************)
(* The conflict resolver (tailwind-merge)                                  *)
(***************************************************************************)

\* The class group tailwind-merge assigns to a base class; "" for a
\* class it does not know (such classes never conflict).
TwClassGroup(base) ==
  IF base = S_flex THEN "display"
  ELSE IF IsPrefix(S_w, base) THEN "w"
  ELSE IF IsPrefix(S_bg, base) THEN "bg-color"
  ELSE IF IsPrefix(S_gap, base) THEN "gap"
  ELSE ""

\* Two classes conflict when they carry the same modifiers (the leading
\* important marker and the variant prefix) and the same known group.
TwClassId(token) ==
  LET n == removeImportantPrefix(token)
      base == stripVariants(n.value)
  IN [important |-> n.important,
      variants |-> SubSeq(n.value, 1, Len(n.value) - Len(base)),
      group |-> TwClassGroup(base)]

TwConflict(a, b) == TwClassId(a).group # "" /\ TwClassId(a) = TwClassId(b)

RECURSIVE TwKeepLast(_)
\* Drops every class that a later class of the list overrides.
TwKeepLast(classes) ==
  IF classes = <<>> THEN <<>>
  ELSE IF \E k \in 2..Len(classes) : TwConflict(classes[1], classes[k])
    THEN TwKeepLast(Tail(classes))
  ELSE <<Head(classes)>> \o TwKeepLast(Tail(classes))

\* twMerge(classList): splits the list on whitespace runs, keeps the
\* last of mutually conflicting classes in their order, and joins with
\* single spaces.
twMerge(classList) ==
  JoinSpace(TwKeepLast(SelectSeq(SplitOn(classList, WhiteSpace, <<>>), NonEmpty)))

(***************************************************************************)
(* Formatter orchestration                                                 *)
(***************************************************************************)

Null == [null |-> TRUE, str |-> <<>>]

Str(s) == [null |-> FALSE, str |-> s]

\* formatWithGroups returning null whenever the resolver's output equals
\* the collapsed input.
formatWithGroups_NullWhenMerged(value, compiledGroups) ==
  LET collapsed == collapseWhitespace(value)
      tokens == SplitTokens(collapsed)
      sortedTokens == SortTokens(tokens, compiledGroups)
      merged == collapseWhitespace(twMerge(JoinSpace(sortedTokens)))
      unchanged == IF collapsed = value THEN Null ELSE Str(collapsed)
  IN IF collapsed = <<>> THEN
       [collapsed |-> collapsed, tokens |-> <<>>, sortedTokens |-> <<>>,
        merged |-> <<>>, sorted |-> FALSE, result |-> Null]
     ELSE IF Len(tokens) <= 1 THEN
       [collapsed |-> collapsed, tokens |-> tokens, sortedTokens |-> <<>>,
        merged |-> <<>>, sorted |-> FALSE, result |-> unchanged]
     ELSE
       [collapsed |-> collapsed, tokens |-> tokens,
        sortedTokens |-> sortedTokens, merged |-> merged, sorted |-> TRUE,
        result |-> IF merged = collapsed THEN Null ELSE Str(merged)]

\* formatWithGroups, returning its locals together with the returned
\* value (result).  tokens and sortedTokens are empty when the function
\* returns before computing them.
formatWithGroups(value, compiledGroups) ==
  LET collapsed == collapseWhitespace(value)
      tokens == SplitTokens(collapsed)
      sortedTokens == SortTokens(tokens, compiledGroups)
      merged == collapseWhitespace(twMerge(JoinSpace(sortedTokens)))
      unchanged == IF collapsed = value THEN Null ELSE Str(collapsed)
  IN IF collapsed = <<>> THEN
       [collapsed |-> collapsed, tokens |-> <<>>, sortedTokens |-> <<>>,
        merged |-> <<>>, sorted |-> FALSE, result |-> Null]
     ELSE IF Len(tokens) <= 1 THEN
       [collapsed |-> collapsed, tokens |-> tokens, sortedTokens |-> <<>>,
        merged |-> <<>>, sorted |-> FALSE, result |-> unchanged]
     ELSE
       [collapsed |-> collapsed, tokens |-> tokens,
        sortedTokens |-> sortedTokens, merged |-> merged, sorted |-> TRUE,
        result |-> IF merged = collapsed THEN unchanged ELSE Str(merged)]

(***************************************************************************)
(* Regular expressions of the locator entries                              *)
(***************************************************************************)

\* Positions in a text are 0-based as in the source; the character at
\* position i of a text s is s[i + 1].
CharAt(s, i) == s[i + 1]

\* s.slice(from, to) for 0 <= from and to <= s.length.
SliceTo(s, from, to) == SubSeq(s, from + 1, to)

\* The pattern of the inner regex of the built-in locator entries.  The
\* backquote cannot be written in a string of the model: U+0060 stands
\* for it, here and as a character of a text.
STRING_ARGUMENT_REGEX == "[\"'U+0060]([^\"'U+0060]+)[\"'U+0060]"

\* The outer pattern of the built-in entry for cn(...).
P_cn == "cn\\(([^)]*)\\)"

\* Caller patterns: the function name alone, the name followed by
\* anything up to a closing parenthesis, a run of opening parentheses
\* (which matches the empty string), a keyed string with a capture
\* group, and a pattern that is not a valid regular expression.
P_name == "cn"

P_loose == "cn[^)]*\\)"

P_parens == "\\(*"

P_keyed == "\\w+:'([^']*)'"

P_unbalanced == "("

QuoteChars == {"\"", "'", "U+0060"}

WordChars == {"1", "a", "b", "c", "e", "f", "g", "h", "l", "n", "p", "w", "x"}

\* One element of a compiled pattern: a character set (negated or not),
\* taken once, at least once or any number of times, inside or outside
\* capture group 1.
Item(set, neg, min, many, cap) ==
  [set |-> set, neg |-> neg, min |-> min, many |-> many, cap |-> cap]

Lit(ch) == Item({ch}, FALSE, 1, FALSE, FALSE)

\* new RegExp(source) throws a SyntaxError for a source that is not a
\* regular expression.
IsRegExpSource(source) == source # P_unbalanced

\* createRegExp: new RegExp(source, "g").  In each modelled pattern the
\* character following a repetition is outside the repeated set, so a
\* greedy repetition never gives characters back.
createRegExp(source) ==
  CASE source = P_cn ->
         <<Lit("c"), Lit("n"), Lit("("), Item({")"}, TRUE, 0, TRUE, TRUE),
           Lit(")")>>
    [] source = P_name -> <<Lit("c"), Lit("n")>>
    [] source = P_loose ->
         <<Lit("c"), Lit("n"), Item({")"}, TRUE, 0, TRUE, FALSE), Lit(")")>>
    [] source = P_parens -> <<Item({"("}, FALSE, 0, TRUE, FALSE)>>
    [] source = P_keyed ->
         <<Item(WordChars, FALSE, 1, TRUE, FALSE), Lit(":"), Lit("'"),
           Item({"'"}, TRUE, 0, TRUE, TRUE), Lit("'")>>
    [] source = STRING_ARGUMENT_REGEX ->
         <<Item(QuoteChars, FALSE, 1, FALSE, FALSE),
           Item(QuoteChars, TRUE, 1, TRUE, TRUE),
           Item(QuoteChars, FALSE, 1, FALSE, FALSE)>>

Accepts(item, ch) == IF item.neg THEN ch \notin item.set ELSE ch \in item.set

\* The number of characters a pattern element takes at position pos.
RunLength(item, str, pos) ==
  LET rest == Len(str) - pos
      run == CHOOSE m \in 0..rest :
               /\ \A j \in 1..m : Accepts(item, CharAt(str, pos + j - 1))
               /\ (m = rest \/ ~Accepts(item, CharAt(str, pos + m)))
  IN IF item.many THEN run ELSE IF run > 0 THEN 1 ELSE 0

RECURSIVE MatchItems(_, _, _, _, _, _)
\* The element k of a pattern has taken n characters at position pos:
\* the match fails when they are too few, and goes on with the next
\* element otherwise.
MatchTaken(regex, k, str, pos, groupStart, groupEnd, n) ==
  IF n < regex[k].min
  THEN [ok |-> FALSE, end |-> pos, groupStart |-> -1, groupEnd |-> -1]
  ELSE IF regex[k].cap
  THEN MatchItems(regex, k + 1, str, pos + n,
                  IF groupStart < 0 THEN pos ELSE groupStart, pos + n)
  ELSE MatchItems(regex, k + 1, str, pos + n, groupStart, groupEnd)

\* Matches the elements k.. of a pattern at position pos; groupStart and
\* groupEnd delimit capture group 1 (-1 while it has not taken part).
MatchItems(regex, k, str, pos, groupStart, groupEnd) ==
  IF k > Len(regex)
  THEN [ok |-> TRUE, end |-> pos, groupStart |-> groupStart, groupEnd |-> groupEnd]
  ELSE MatchTaken(regex, k, str, pos, groupStart, groupEnd,
                  RunLength(regex[k], str, pos))

MatchAt(regex, str, pos) == MatchItems(regex, 1, str, pos, -1, -1)

NoMatch ==
  [found |-> FALSE, index |-> -1, full |-> <<>>, hasGroup |-> FALSE,
   group |-> <<>>, groupIndex |-> -1, lastIndex |-> 0]

RECURSIVE ExecFrom(_, _, _)
\* The outcome of exec when the attempt at position index gave m: the
\* match found there, or the search from the next position on.
ExecTried(regex, str, index, m) ==
  IF m.ok
  THEN [found |-> TRUE,
        index |-> index,
        full |-> SliceTo(str, index, m.end),
        hasGroup |-> m.groupStart >= 0,
        group |-> IF m.groupStart >= 0
                  THEN SliceTo(str, m.groupStart, m.groupEnd) ELSE <<>>,
        groupIndex |-> m.groupStart,
        lastIndex |-> m.end]
  ELSE ExecFrom(regex, str, index + 1)

\* The search of exec for a match starting at position index or later.
ExecFrom(regex, str, index) ==
  IF index > Len(str) THEN NoMatch
  ELSE ExecTried(regex, str, index, MatchAt(regex, str, index))

\* RegExp.prototype.exec of a regular expression with the g flag whose
\* lastIndex is the given one: the leftmost match starting at or after
\* lastIndex, with the matched text (m[0]), capture group 1 (m[1],
\* undefined when the group is absent or took no part), the index of the
\* match, and the new lastIndex (the end of the match, 0 on failure).
\* groupIndex is the position where the group matched.
RegExpExec(regex, str, lastIndex) == ExecFrom(regex, str, lastIndex)

\* indexOf returning the last position where needle occurs.
IndexOf_Last(s, needle) ==
  LET at == { i \in 0..(Len(s) - Len(needle)) :
                SliceTo(s, i, i + Len(needle)) = needle }
  IN IF at = {} THEN -1 ELSE CHOOSE i \in at : \A j \in at : j <= i

\* String.prototype.indexOf: the first position where needle occurs in
\* s, -1 when it does not occur.
IndexOf(s, needle) ==
  LET at == { i \in 0..(Len(s) - Len(needle)) :
                SliceTo(s, i, i + Len(needle)) = needle }
  IN IF at = {} THEN -1 ELSE CHOOSE i \in at : \A j \in at : i <= j

(***************************************************************************)
(* The extraction engine                                                   *)
(***************************************************************************)

\* A locator entry: the outer pattern and the inner pattern, "" when the
\* entry is a single string or has no second element (an empty inner
\* pattern is falsy and is treated by the code as absent).
Entry(outer, inner) == [outer |-> outer, inner |-> inner]

\* The built-in locator entries: of cva, clsx, cn and twMerge the model
\* has the entry of the function whose calls occur in its texts.
DEFAULT_CLASS_REGEX == <<Entry(P_cn, STRING_ARGUMENT_REGEX)>>

RECURSIVE LiteralBody(_, _, _, _)
\* The inner loop of extractStringLiterals from position i on: the
\* position of the quote closing the literal and the characters before
\* it; closed is FALSE when the text ends first.
LiteralBody(text, i, quote, value) ==
  IF i >= Len(text) THEN [closed |-> FALSE, at |-> i, value |-> value]
  ELSE IF CharAt(text, i) = quote /\ CharAt(text, i - 1) # "\\"
  THEN [closed |-> TRUE, at |-> i, value |-> value]
  ELSE LiteralBody(text, i + 1, quote, Append(value, CharAt(text, i)))

RECURSIVE LiteralScan(_, _, _)
\* The outer loop of extractStringLiterals from position i on.
LiteralScan(text, i, literals) ==
  IF i >= Len(text) THEN literals
  ELSE IF CharAt(text, i) \in QuoteChars THEN
    LET body == LiteralBody(text, i + 1, CharAt(text, i), <<>>) IN
      IF body.closed
      THEN LiteralScan(text, body.at + 1,
                       Append(literals, [value |-> body.value,
                                         start |-> i + 1,
                                         end |-> body.at]))
      ELSE LiteralScan(text, body.at, literals)
  ELSE LiteralScan(text, i + 1, literals)

extractStringLiterals(text) == LiteralScan(text, 0, <<>>)

findCaptureOffset(fullMatch, capture) ==
  LET index == IndexOf(fullMatch, capture)
  IN IF index >= 0 THEN index ELSE 0

\* An emitted match: the 0-based half-open range and the class list.
Match(start, end, value) == [range |-> <<start, end>>, value |-> value]

RECURSIVE InnerLoop(_, _, _, _, _, _, _, _)
\* The end of the loop body of processInnerMatches for a non-empty
\* match whose value lies at [start, end) of the text: the range is
\* handed to onMatch unless it has been processed.
InnerRange(target, regex, containerOffset, text, next, processedRanges, out, positions, start, end) ==
  IF <<start, end>> \in processedRanges
  THEN InnerLoop(target, regex, containerOffset, text, next, processedRanges,
                 out, positions)
  ELSE InnerLoop(target, regex, containerOffset, text, next,
                 processedRanges \cup {<<start, end>>},
                 Append(out, Match(start, end, SliceTo(text, start, end))),
                 positions)

\* The loop body of processInnerMatches for the result of exec.
InnerStep(target, regex, containerOffset, text, processedRanges, out, positions, innerMatch) ==
  IF ~innerMatch.found THEN [out |-> out, positions |-> positions]
  ELSE IF innerMatch.full = <<>>
  THEN InnerLoop(target, regex, containerOffset, text,
                 innerMatch.lastIndex + 1, processedRanges, out, positions)
  ELSE LET innerValue == IF innerMatch.hasGroup THEN innerMatch.group
                         ELSE innerMatch.full
           innerOffset == innerMatch.index
                            + findCaptureOffset(innerMatch.full, innerValue)
       IN InnerRange(target, regex, containerOffset, text, innerMatch.lastIndex,
                     processedRanges, out, positions,
                     containerOffset + innerOffset,
                     containerOffset + innerOffset + Len(innerValue))

\* The loop of processInnerMatches with regex.lastIndex = lastIndex:
\* the matches handed to onMatch, in order, and the values regex.lastIndex
\* had at the calls of exec (positions).
InnerLoop(target, regex, containerOffset, text, lastIndex, processedRanges, out, positions) ==
  InnerStep(target, regex, containerOffset, text, processedRanges, out,
            Append(positions, lastIndex), RegExpExec(regex, target, lastIndex))

processInnerMatches(target, regex, containerOffset, text) ==
  InnerLoop(target, regex, containerOffset, text, 0, {}, <<>>, <<>>).out

RECURSIVE ParenScan(_, _, _, _, _)
\* The loop of findMatchingParenIndex at position i; inString is "" for
\* false and the opening quote otherwise.
ParenScan(text, i, depth, inString, escaped) ==
  IF i >= Len(text) THEN -1
  ELSE LET ch == CharAt(text, i) IN
    IF inString # ""
    THEN ParenScan(text, i + 1, depth,
                   IF ~escaped /\ ch = inString THEN "" ELSE inString,
                   ~escaped /\ ch = "\\")
    ELSE IF ch \in QuoteChars THEN ParenScan(text, i + 1, depth, ch, FALSE)
    ELSE IF ch = "(" THEN ParenScan(text, i + 1, depth + 1, inString, escaped)
    ELSE IF ch = ")" THEN
      IF depth - 1 = 0 THEN i
      ELSE ParenScan(text, i + 1, depth - 1, inString, escaped)
    ELSE ParenScan(text, i + 1, depth, inString, escaped)

\* findMatchingParenIndex counting the parentheses inside quotes too.
findMatchingParenIndex_IgnoreQuotes(text, openParenIndex) ==
  LET surplus(p) ==
        Cardinality({ k \in (openParenIndex + 1)..p : CharAt(text, k) = "(" })
          - Cardinality({ k \in (openParenIndex + 1)..p : CharAt(text, k) = ")" })
      closing == { p \in (openParenIndex + 1)..(Len(text) - 1) :
                     CharAt(text, p) = ")" /\ surplus(p) = -1 }
  IN IF closing = {} THEN -1 ELSE CHOOSE p \in closing : \A r \in closing : p <= r

findMatchingParenIndex(text, openParenIndex) ==
  ParenScan(text, openParenIndex + 1, 1, "", FALSE)

\* The matches the fallback emits for the literals of a container.
LiteralMatches(literals, containerOffset) ==
  [k \in DOMAIN literals |->
     Match(containerOffset + literals[k].start,
           containerOffset + literals[k].end, literals[k].value)]

\* Iteration without the increment of lastIndex after an empty match.
Iteration_NoIncrement(kind, outerMatch, openAbs, closeAbs, emitted) ==
  [kind |-> kind, outerMatch |-> outerMatch, openAbs |-> openAbs,
   closeAbs |-> closeAbs,
   lastIndex |-> IF kind = "end" THEN 0 ELSE outerMatch.lastIndex,
   emitted |-> emitted]

\* What an iteration of the while loop of applyRegexEntry did (kind),
\* its outer match, the parentheses it found, the lastIndex it leaves
\* and the matches it handed to onMatch.
Iteration(kind, outerMatch, openAbs, closeAbs, emitted) ==
  [kind |-> kind, outerMatch |-> outerMatch, openAbs |-> openAbs,
   closeAbs |-> closeAbs,
   lastIndex |-> IF kind = "end" THEN 0
                 ELSE IF kind = "empty" THEN outerMatch.lastIndex + 1
                 ELSE outerMatch.lastIndex,
   emitted |-> emitted]

\* applyRegexEntry with the container of the call: the inner pattern
\* is applied to it when the entry has one; otherwise literals is the
\* result of extractStringLiterals(container), and the literals or, when
\* there is none, the whole container are handed to onMatch.
OuterContainer(text, entry, outerMatch, openAbs, closeAbs, container, literals) ==
  IF entry.inner # ""
  THEN Iteration("inner", outerMatch, openAbs, closeAbs,
                 processInnerMatches(container, createRegExp(entry.inner),
                                     openAbs + 1, text))
  ELSE IF Len(literals) > 0
  THEN Iteration("literals", outerMatch, openAbs, closeAbs,
                 LiteralMatches(literals, openAbs + 1))
  ELSE Iteration("region", outerMatch, openAbs, closeAbs,
                 <<Match(openAbs + 1, openAbs + 1 + Len(container),
                         SliceTo(text, openAbs + 1,
                                 openAbs + 1 + Len(container)))>>)

\* applyRegexEntry after findMatchingParenIndex returned closeAbs.
OuterClosed(text, entry, outerMatch, openAbs, closeAbs) ==
  IF closeAbs < 0 THEN Iteration("unbalanced", outerMatch, openAbs, -1, <<>>)
  ELSE OuterContainer(text, entry, outerMatch, openAbs, closeAbs,
                      SliceTo(text, openAbs + 1, closeAbs),
                      extractStringLiterals(SliceTo(text, openAbs + 1, closeAbs)))

\* applyRegexEntry after matchedText.indexOf('(') returned openRel.
OuterOpened(text, entry, outerMatch, openRel) ==
  IF openRel < 0 THEN Iteration("noParen", outerMatch, -1, -1, <<>>)
  ELSE OuterClosed(text, entry, outerMatch, outerMatch.index + openRel,
                   findMatchingParenIndex(text, outerMatch.index + openRel))

\* The loop body of applyRegexEntry for the result of exec.
OuterMatched(text, entry, outerMatch) ==
  IF ~outerMatch.found THEN Iteration("end", outerMatch, -1, -1, <<>>)
  ELSE IF outerMatch.full = <<>>
  THEN Iteration("empty", outerMatch, -1, -1, <<>>)
  ELSE OuterOpened(text, entry, outerMatch, IndexOf(outerMatch.full, <<"(">>))

\* One iteration of the while loop of applyRegexEntry with
\* outerRegex.lastIndex = lastIndex.
OuterIteration(text, entry, lastIndex) ==
  OuterMatched(text, entry,
               RegExpExec(createRegExp(entry.outer), text, lastIndex))

(***************************************************************************)
(* Reporting                                                               *)
(***************************************************************************)

\* handleLiteralValue without the look-up in reportedRanges.
handleLiteralValue_NoRangeCheck(range, value, state, compiledGroups) ==
  LET formatted == formatWithGroups(value, compiledGroups).result IN
    IF formatted.null \/ formatted.str = <<>> \/ formatted.str = value THEN state
    ELSE [reportedRanges |-> state.reportedRanges \cup {range},
          reports |-> Append(state.reports,
                             [range |-> range, value |-> value,
                              formatted |-> formatted.str])]

\* handleLiteralValue on the rule's state (the set reportedRanges and
\* the reports made so far).
handleLiteralValue(range, value, state, compiledGroups) ==
  LET formatted == formatWithGroups(value, compiledGroups).result IN
    IF formatted.null \/ formatted.str = <<>> \/ formatted.str = value THEN state
    ELSE IF range \in state.reportedRanges THEN state
    ELSE [reportedRanges |-> state.reportedRanges \cup {range},
          reports |-> Append(state.reports,
                             [range |-> range, value |-> value,
                              formatted |-> formatted.str])]

RECURSIVE HandleMatches(_, _, _)
\* The onMatch callback of the rule applied to the matches of one
\* iteration, in the order they are emitted.
HandleMatches(matches, state, compiledGroups) ==
  IF matches = <<>> THEN state
  ELSE HandleMatches(Tail(matches),
                     handleLiteralValue(Head(matches).range, Head(matches).value,
                                        state, compiledGroups),
                     compiledGroups)

(***************************************************************************)
(* Inputs of the model                                                     *)
(***************************************************************************)

\* Largest number of classes in a class list.
MaxClasses == 3

\* Largest number of classes in a class list of the whitespace model.
MaxWsClasses == 4

\* Largest length of the tokens enumerated character by character.
MaxTokenLen == 5

\* Largest number of formatting passes over one class list (ESLint lints
\* the fixed text again).
MaxPasses == 2

T_flex == S_flex
T_iflex == <<"!">> \o S_flex
T_bg == S_bg \o <<"a">>
T_ibg == <<"!">> \o T_bg
T_hbg == <<"h", ":">> \o T_bg
T_w == S_w \o <<"1">>
T_x == <<"x">>
T_arb == <<"h", ":", "[", "a", ":", "b", "]", ":">> \o T_bg
T_bgarb == S_bg \o <<"[", "a", ":", "b", "]">>
T_open == <<"[", "a", ":", "b">>
T_close == <<"a", ":", "b", "]">>
T_pre == <<"U+00E9">>
T_dec == <<"e", "U+0301">>
T_ipre == <<"!", "U+00E9">>
T_nest == <<"[", "[", ":", "]", ":", "]", ":", "x">>

ClassNames == {T_flex, T_iflex, T_bg, T_hbg, T_w, T_x}

VariantClassNames ==
  {T_bg, T_hbg, T_arb, T_bgarb, T_open, T_close, T_ibg, T_nest}

UnicodeClassNames == {T_pre, T_dec, T_ipre, T_x}

WsClassNames == {T_flex, T_iflex, T_w, T_bg}

\* Every one-token class list of up to MaxTokenLen characters over
\* colon, brackets and a letter.
BracketTokens ==
  UNION { [1..n -> {":", "[", "]", "b"}] : n \in 1..MaxTokenLen }

Configs == {<<>>, overrideGroupDefinitions, overlapGroupDefinitions}

RECURSIVE Interleave(_, _)
\* names[1] seps[1] names[2] ... names[n]
Interleave(names, seps) ==
  IF names = <<>> THEN <<>>
  ELSE IF Len(names) = 1 THEN names[1]
  ELSE names[1] \o seps[1] \o Interleave(Tail(names), Tail(seps))

\* The class lists of up to n classes drawn from names, separated by
\* runs drawn from seps and surrounded by runs drawn from pads.
ClassLists(names, seps, pads, n) ==
  UNION { { lead \o Interleave(ns, ss) \o trail :
              ns \in [1..k -> names],
              ss \in [1..(IF k = 0 THEN 0 ELSE k - 1) -> seps],
              lead \in pads, trail \in pads } : k \in 0..n }

\* Pieces of the source texts: a call of cn up to its opening
\* parenthesis, parentheses, quotes, a backslash, a class list that is
\* not in sorted order, a further call argument, and a keyed string.
K_call == <<"c", "n", "(">>

K_open == <<"(">>

K_close == <<")">>

K_single == <<"'">>

K_double == <<"\"">>

K_backslash == <<"\\">>

K_classes == T_w \o <<" ">> \o T_flex

K_arg == <<",", "b">>

K_keyed == <<"a", ":", "'", "a", "'">>

\* Most pieces after the opening cn( in the texts of the scanning runs.
MaxPieces == 4

RECURSIVE Concats(_, _)
\* The concatenations of at most n pieces.
Concats(pieces, n) ==
  IF n = 0 THEN {<<>>}
  ELSE LET shorter == Concats(pieces, n - 1)
       IN shorter \cup { t \o p : t \in shorter, p \in pieces }

\* The texts that start with a call of cn.
Calls(pieces, n) == { K_call \o t : t \in Concats(pieces, n) }

ScanPieces ==
  {K_call, K_open, K_close, K_single, K_double, K_backslash, K_classes}

\* The name of the function without its parenthesis.
K_name == <<"c", "n">>

\* Most pieces in the texts of the runs with caller patterns.
MaxLocatePieces == 4

LocatePieces == {K_name, K_open, K_close, K_backslash, K_single}

\* Most pieces in the texts of the runs whose patterns match the empty
\* string.
MaxAdvancePieces == 4

AdvancePieces == {K_name, K_open, K_close, K_single}

\* Most pieces after the opening cn( in the texts with keyed strings.
MaxKeyedPieces == 4

KeyedPieces == {K_keyed, K_close, K_single, K_classes}

\* A quoted class list.
K_quoted == K_single \o K_classes \o K_single

\* An empty pair of parentheses.
K_group == <<"(", ")">>

\* Most pieces after the opening cn( in the texts with nested calls.
MaxNestedPieces == 5

NestedPieces == {K_call, K_group, K_close, K_quoted}

\* A quoted class list in sorted order.
K_formatted == K_single \o T_flex \o <<" ">> \o T_w \o K_single

\* Most pieces after the opening cn( in the texts of the rule runs.
MaxRulePieces == 3

RulePieces == {K_quoted, K_formatted, K_arg, K_close}

\* Most visitor events of a rule run.
MaxEvents == 3

\* Most pieces after the opening cn( in the texts with escapes.
MaxEscapePieces == 5

\* An empty string literal.
K_empty == <<"'", "'">>

EscapePieces == {K_close, K_single, K_empty, K_backslash, K_classes}

(***************************************************************************)
(* State                                                                   *)
(***************************************************************************)

VARIABLES
  groupDefinitions, \* the groupDefinitions option of the rule
  compiledGroups,   \* the registry bound by createClassFormatter
  value,            \* the class list as it stands in the source text
  pc,               \* "ready": to be linted, "formatted": format returned
  passes,           \* number of formatWithGroups calls made
  collapsed,        \* locals of the last formatWithGroups call
  tokens,
  sortedTokens,
  merged,
  sorted,           \* whether the last call reached the sort
  input,            \* the argument of the last formatWithGroups call
  result,           \* its return value
  text,             \* the source text of the linted file
  classRegex,       \* the locator entries of the rule run
  phase,            \* where the rule run stands (see InitRuleWith)
  handler,          \* the exit handler whose extraction pass is running
  passNo,           \* number of extraction passes started
  entryIndex,       \* 1-based index of the entry applyRegexEntry works on
  lastIndex,        \* outerRegex.lastIndex
  iteration,        \* what the last iteration of applyRegexEntry did
  emitted,          \* every match handed to onMatch, in order
  reportedRanges,   \* the Set reportedRanges of create()
  reports,          \* the context.report calls, in order
  events,           \* number of visitor events handled
  budget            \* number of visitor events of the run

ruleVars == <<text, classRegex, phase, handler, passNo, entryIndex, lastIndex,
              iteration, emitted, reportedRanges, reports, events, budget>>

vars == <<groupDefinitions, compiledGroups, value, pc, passes, collapsed,
          tokens, sortedTokens, merged, sorted, input, result, ruleVars>>

\* No iteration of applyRegexEntry has run.
NoIteration ==
  [kind |-> "none", from |-> 0, entry |-> 0, pass |-> 0, outerMatch |-> NoMatch,
   openAbs |-> -1, closeAbs |-> -1, lastIndex |-> 0, emitted |-> <<>>]

\* The rule state of a run that lints one class list and no file.
RuleOff ==
  /\ text = <<>>
  /\ classRegex = <<>>
  /\ phase = "off"
  /\ handler = ""
  /\ passNo = 0
  /\ entryIndex = 0
  /\ lastIndex = 0
  /\ iteration = NoIteration
  /\ emitted = <<>>
  /\ reportedRanges = {}
  /\ reports = <<>>
  /\ events = 0
  /\ budget = 0

InitWith(configs, lists) ==
  /\ groupDefinitions \in configs
  /\ compiledGroups = createClassFormatter(groupDefinitions)
  /\ value \in lists
  /\ pc = "ready"
  /\ passes = 0
  /\ collapsed = <<>>
  /\ tokens = <<>>
  /\ sortedTokens = <<>>
  /\ merged = <<>>
  /\ sorted = FALSE
  /\ input = <<>>
  /\ result = Null
  /\ RuleOff

Init ==
  InitWith(Configs, ClassLists(ClassNames, {<<" ">>}, {<<>>, <<" ">>}, MaxClasses))

InitVariants ==
  InitWith(Configs,
           ClassLists(VariantClassNames, {<<" ">>}, {<<>>}, MaxClasses)
             \cup BracketTokens)

InitUnicode ==
  InitWith({<<>>}, ClassLists(UnicodeClassNames, {<<" ">>}, {<<>>, <<" ">>}, MaxClasses))

InitWs ==
  InitWith({<<>>},
           ClassLists(WsClassNames, {<<" ">>, <<"\t">>, <<" ", " ">>},
                      {<<>>}, MaxWsClasses))

(***************************************************************************)
(* Operations                                                              *)
(***************************************************************************)

\* handleLiteralValue calls the formatter on the class list.
FormatValue ==
  /\ pc = "ready"
  /\ passes < MaxPasses
  /\ LET r == formatWithGroups(value, compiledGroups) IN
       /\ collapsed' = r.collapsed
       /\ tokens' = r.tokens
       /\ sortedTokens' = r.sortedTokens
       /\ merged' = r.merged
       /\ sorted' = r.sorted
       /\ result' = r.result
  /\ input' = value
  /\ passes' = passes + 1
  /\ pc' = "formatted"
  /\ UNCHANGED <<groupDefinitions, compiledGroups, value, ruleVars>>

\* The formatter returned a replacement different from the class list:
\* the rule reports it and the fix replaces the text of the range.
ApplyFix ==
  /\ pc = "formatted"
  /\ ~result.null
  /\ result.str # value
  /\ value' = result.str
  /\ pc' = "ready"
  /\ UNCHANGED <<groupDefinitions, compiledGroups, passes, collapsed, tokens,
                 sortedTokens, merged, sorted, input, result, ruleVars>>

\* The formatter returned null (or the class list itself): nothing is
\* reported and the text stays.
NoChange ==
  /\ pc = "formatted"
  /\ (result.null \/ result.str = value)
  /\ pc' = "ready"
  /\ UNCHANGED <<groupDefinitions, compiledGroups, value, passes, collapsed,
                 tokens, sortedTokens, merged, sorted, input, result, ruleVars>>

Next == FormatValue \/ ApplyFix \/ NoChange

Spec == Init /\ [][Next]_vars

SpecVariants == InitVariants /\ [][Next]_vars

SpecUnicode == InitUnicode /\ [][Next]_vars

SpecWs == InitWs /\ [][Next]_vars

(***************************************************************************)
(* The rule run                                                            *)
(***************************************************************************)

\* Whether the backslashes that end right before position j, without
\* going back beyond position from, are odd in number.
OddBackslashes(str, from, j) ==
  LET run == CHOOSE m \in 0..(j - from) :
               /\ \A k \in 1..m : CharAt(str, j - k) = "\\"
               /\ (m = j - from \/ CharAt(str, j - m - 1) # "\\")
  IN run % 2 = 1

RECURSIVE QuotedFrom(_, _, _, _)
\* The string literals of str[i..to) as the parser of the language reads
\* them: a literal runs from a quote to the next quote of the same kind
\* that is not escaped, a backslash escaping the character after it.
QuotedFrom(str, i, to, found) ==
  IF i >= to THEN found
  ELSE IF CharAt(str, i) \in QuoteChars THEN
    LET closing == { j \in (i + 1)..(to - 1) :
                       /\ CharAt(str, j) = CharAt(str, i)
                       /\ ~OddBackslashes(str, i + 1, j) }
    IN IF closing = {} THEN found
       ELSE LET j == CHOOSE c \in closing : \A d \in closing : c <= d
            IN QuotedFrom(str, j + 1, to, found \cup {<<i + 1, j>>})
  ELSE QuotedFrom(str, i + 1, to, found)

\* The ranges of the contents of the string literals of str[from..to).
QuotedLiterals(str, from, to) == QuotedFrom(str, from, to, {})

RECURSIVE Cooked(_)
\* The value of a literal node: a backslash stands for the character
\* after it (every escape of the model's texts is of this kind).
Cooked(raw) ==
  IF raw = <<>> THEN <<>>
  ELSE IF Head(raw) = "\\" /\ Len(raw) > 1
  THEN <<raw[2]>> \o Cooked(SubSeq(raw, 3, Len(raw)))
  ELSE <<Head(raw)>> \o Cooked(Tail(raw))

\* The literal nodes the parser can hand to the attribute and
\* template-literal visitors: string literals of the text, with the
\* range between the quotes (node range + 1, - 1) and the node's value.
LiteralNodes(str) ==
  { [range |-> r, value |-> Cooked(SliceTo(str, r[1], r[2]))] :
      r \in QuotedLiterals(str, 0, Len(str)) }

\* new RegExp succeeds for every matcher of every group.
MatchersCompile(definitions) ==
  \A i \in DOMAIN definitions : \A k \in DOMAIN definitions[i].matchers :
    IsRegExpSource(definitions[i].matchers[k])

\* create(context): the formatter is built (its matchers are compiled)
\* and reportedRanges is empty.  phase is "visiting" while the traversal
\* may call a visitor, "compile" at the start of applyRegexEntry for the
\* entry entryIndex, "loop" inside its while loop, "thrown" after an
\* exception left the rule.
InitRuleWith(texts, options, configs, n) ==
  /\ groupDefinitions \in configs
  /\ compiledGroups = (IF MatchersCompile(groupDefinitions)
                       THEN createClassFormatter(groupDefinitions) ELSE <<>>)
  /\ value = <<>>
  /\ pc = "rule"
  /\ passes = 0
  /\ collapsed = <<>>
  /\ tokens = <<>>
  /\ sortedTokens = <<>>
  /\ merged = <<>>
  /\ sorted = FALSE
  /\ input = <<>>
  /\ result = Null
  /\ text \in texts
  /\ classRegex \in options
  /\ phase = (IF MatchersCompile(groupDefinitions) THEN "visiting" ELSE "thrown")
  /\ handler = ""
  /\ passNo = 0
  /\ entryIndex = 0
  /\ lastIndex = 0
  /\ iteration = NoIteration
  /\ emitted = <<>>
  /\ reportedRanges = {}
  /\ reports = <<>>
  /\ events = 0
  /\ budget = n

formatterVars == <<groupDefinitions, compiledGroups, value, pc, passes,
                   collapsed, tokens, sortedTokens, merged, sorted, input, result>>

\* A JSXAttribute, TemplateLiteral or VAttribute visitor is called with
\* a literal node: visitLiteralRange.
VisitLiteral ==
  /\ phase = "visiting"
  /\ events < budget
  /\ \E node \in LiteralNodes(text) :
       LET state == IF node.value = <<>>
                    THEN [reportedRanges |-> reportedRanges, reports |-> reports]
                    ELSE handleLiteralValue(node.range, node.value,
                           [reportedRanges |-> reportedRanges, reports |-> reports],
                           compiledGroups)
       IN /\ reportedRanges' = state.reportedRanges
          /\ reports' = state.reports
  /\ events' = events + 1
  /\ UNCHANGED <<formatterVars, text, classRegex, phase, handler, passNo,
                 entryIndex, lastIndex, iteration, emitted, budget>>

\* VElement:exit: classRegex.forEach(...) starts.
VElementExit ==
  /\ phase = "visiting"
  /\ events < budget
  /\ events' = events + 1
  /\ handler' = "VElement:exit"
  /\ passNo' = passNo + 1
  /\ entryIndex' = 1
  /\ phase' = (IF classRegex = <<>> THEN "visiting" ELSE "compile")
  /\ UNCHANGED <<formatterVars, text, classRegex, lastIndex, iteration, emitted,
                 reportedRanges, reports, budget>>

\* Program:exit: classRegex.forEach(...) starts.
ProgramExit ==
  /\ phase = "visiting"
  /\ events < budget
  /\ events' = events + 1
  /\ handler' = "Program:exit"
  /\ passNo' = passNo + 1
  /\ entryIndex' = 1
  /\ phase' = (IF classRegex = <<>> THEN "visiting" ELSE "compile")
  /\ UNCHANGED <<formatterVars, text, classRegex, lastIndex, iteration, emitted,
                 reportedRanges, reports, budget>>

\* applyRegexEntry up to its while loop: the patterns of the entry are
\* compiled, and an invalid pattern throws.
CompileEntry ==
  /\ phase = "compile"
  /\ LET entry == classRegex[entryIndex] IN
       IF IsRegExpSource(entry.outer)
            /\ (entry.inner # "" => IsRegExpSource(entry.inner))
       THEN phase' = "loop"
       ELSE phase' = "thrown"
  /\ lastIndex' = 0
  /\ UNCHANGED <<formatterVars, text, classRegex, handler, passNo, entryIndex,
                 iteration, emitted, reportedRanges, reports, events, budget>>

\* The matches of an iteration as they are logged.
Logged(matches) ==
  [k \in DOMAIN matches |->
     [range |-> matches[k].range, value |-> matches[k].value,
      entry |-> entryIndex, pass |-> passNo]]

\* One iteration of the while loop of applyRegexEntry, the onMatch
\* callbacks included; when exec returns null the loop ends and forEach
\* goes on to the next entry.
OuterStep ==
  /\ phase = "loop"
  /\ \E it \in {OuterIteration(text, classRegex[entryIndex], lastIndex)} :
      \E state \in {HandleMatches(it.emitted,
                       [reportedRanges |-> reportedRanges, reports |-> reports],
                       compiledGroups)} :
        /\ iteration' = [kind |-> it.kind, from |-> lastIndex,
                         entry |-> entryIndex, pass |-> passNo,
                         outerMatch |-> it.outerMatch, openAbs |-> it.openAbs,
                         closeAbs |-> it.closeAbs, lastIndex |-> it.lastIndex,
                         emitted |-> it.emitted]
        /\ lastIndex' = it.lastIndex
        /\ emitted' = emitted \o Logged(it.emitted)
        /\ reportedRanges' = state.reportedRanges
        /\ reports' = state.reports
        /\ IF it.kind = "end"
           THEN /\ entryIndex' = entryIndex + 1
                /\ phase' = (IF entryIndex + 1 > Len(classRegex)
                             THEN "visiting" ELSE "compile")
           ELSE UNCHANGED <<entryIndex, phase>>
  /\ UNCHANGED <<formatterVars, text, classRegex, handler, passNo, events, budget>>

\* A file without class attributes and template literals, outside Vue:
\* only the Program:exit pass runs.
NextExtract == ProgramExit \/ CompileEntry \/ OuterStep

NextRule == VisitLiteral \/ VElementExit \/ ProgramExit \/ CompileEntry \/ OuterStep

\* The classRegex option of the scanning runs: the pattern of cn(...)
\* alone, then the built-in entry.
ScanOptions == {<<Entry(P_cn, "")>> \o DEFAULT_CLASS_REGEX}

InitExtract == InitRuleWith(Calls(ScanPieces, MaxPieces), ScanOptions, {<<>>}, 1)

SpecExtract == InitExtract /\ [][NextExtract]_vars

InitEscapes ==
  InitRuleWith(Calls(EscapePieces, MaxEscapePieces), ScanOptions, {<<>>}, 1)

SpecEscapes == InitEscapes /\ [][NextExtract]_vars

\* classRegex options with caller patterns: the function name alone
\* followed by a pattern that reaches the first ")", and a pattern that
\* matches the empty string.
LocateOptions ==
  { <<Entry(P_name, ""), Entry(P_loose, STRING_ARGUMENT_REGEX)>>,
    <<Entry(P_parens, "")>> }

InitLocate ==
  InitRuleWith(Concats(LocatePieces, MaxLocatePieces), LocateOptions, {<<>>}, 1)

SpecLocate == InitLocate /\ [][NextExtract]_vars

\* A groupDefinitions option with a matcher that is not a regular
\* expression.
brokenGroupDefinitions == <<[name |-> "broken", matchers |-> <<P_unbalanced>>]>>

\* classRegex options of the rule runs: the built-in entries, and lists
\* with an outer or an inner pattern that is not a regular expression.
RuleOptions ==
  { DEFAULT_CLASS_REGEX,
    <<Entry(P_cn, ""), Entry(P_unbalanced, "")>>,
    <<Entry(P_cn, P_unbalanced)>> }

InitRule ==
  InitRuleWith(Calls(RulePieces, MaxRulePieces), RuleOptions,
               {<<>>, brokenGroupDefinitions}, MaxEvents)

SpecRule == InitRule /\ [][NextRule]_vars

InitNested ==
  InitRuleWith(Calls(NestedPieces, MaxNestedPieces), ScanOptions, {<<>>}, 1)

SpecNested == InitNested /\ [][NextExtract]_vars

\* A classRegex option whose inner pattern has text before its capture
\* group.
KeyedOptions == {<<Entry(P_cn, P_keyed)>>}

InitKeyed ==
  InitRuleWith(Calls(KeyedPieces, MaxKeyedPieces), KeyedOptions, {<<>>}, 1)

SpecKeyed == InitKeyed /\ [][NextExtract]_vars

\* classRegex options whose outer or inner pattern matches the empty
\* string.
AdvanceOptions ==
  { <<Entry(P_name, ""), Entry(P_loose, P_parens)>>,
    <<Entry(P_parens, "")>> }

InitAdvance ==
  InitRuleWith(Concats(AdvancePieces, MaxAdvancePieces), AdvanceOptions, {<<>>}, 1)

SpecAdvance == InitAdvance /\ [][NextExtract]_vars

(***************************************************************************)
(* Properties                                                              *)
(***************************************************************************)

Sign(n) == IF n < 0 THEN -1 ELSE IF n > 0 THEN 1 ELSE 0

\* The base of a token as the normalizer classifies it.
BaseOf(token) == normalizeToken(token, compiledGroups).base

\* 1-based position of the first declared group with a matcher matching
\* the base, 0 when no group has one.
DeclaredGroup(base) ==
  IF \E i \in DOMAIN compiledGroups : GroupMatches(compiledGroups[i], base)
  THEN CHOOSE i \in DOMAIN compiledGroups :
         /\ GroupMatches(compiledGroups[i], base)
         /\ \A k \in 1..(i - 1) : ~GroupMatches(compiledGroups[k], base)
  ELSE 0

\* C1 (group ordering): in the sequence format sorts and hands to the
\* conflict resolver, a token whose base resolves to an earlier-declared
\* group stands before every token whose base resolves to a
\* later-declared group, whatever their alphabetical order, and a token
\* matching no group stands behind every token of a named group.
C1_GroupOrdering ==
  sorted =>
    \A i, j \in DOMAIN sortedTokens :
      LET gi == DeclaredGroup(BaseOf(sortedTokens[i]))
          gj == DeclaredGroup(BaseOf(sortedTokens[j]))
      IN /\ (gi # 0 /\ gj # 0 /\ gi < gj) => i < j
         /\ (gi # 0 /\ gj = 0) => i < j

\* A class list whose input order had a later-group, alphabetically
\* smaller token first and an unclassified token before a classified
\* one, after the sort.
C1_Witness ==
  /\ sorted
  /\ \E i, j \in DOMAIN tokens :
       /\ i < j
       /\ DeclaredGroup(BaseOf(tokens[i])) > DeclaredGroup(BaseOf(tokens[j]))
       /\ DeclaredGroup(BaseOf(tokens[j])) # 0
       /\ localeCompare(BaseOf(tokens[i]), BaseOf(tokens[j])) < 0
  /\ \E i, j \in DOMAIN tokens :
       /\ i < j
       /\ DeclaredGroup(BaseOf(tokens[i])) = 0
       /\ DeclaredGroup(BaseOf(tokens[j])) # 0

\* The maximal whitespace-free substrings of a string, in order.
MaximalWords(s) == SelectSeq(SplitOn(s, WhiteSpace, <<>>), NonEmpty)

HasWhiteSpace(s) == \E k \in DOMAIN s : IsWhiteSpace(s[k])

\* C2 (idempotence): formatting the class list that a first pass left in
\* place (format(x) when non-null, x otherwise) returns null.
C2_Idempotence ==
  (pc = "formatted" /\ passes = 2) => result.null

\* C3 (whitespace collapsing): the tokens format sorts are exactly the
\* maximal whitespace-free substrings of the raw input, and no sorted
\* token contains a whitespace character.
C3_WhitespaceCollapsing ==
  sorted =>
    /\ tokens = MaximalWords(input)
    /\ \A k \in DOMAIN sortedTokens : ~HasWhiteSpace(sortedTokens[k])

\* C4 (trivial and whitespace-only changes): format returns null when
\* the collapsed input is empty; for at most one token it returns null
\* if the raw string equals its collapsed form and the collapsed string
\* otherwise; for several tokens already in sorted, conflict-free order
\* but with extra whitespace it returns the collapsed string.
C4_TrivialChanges ==
  pc = "formatted" =>
    LET words == MaximalWords(input)
        whole == JoinSpace(words)
    IN /\ whole = <<>> => result.null
       /\ Len(words) = 1 => result = (IF input = whole THEN Null ELSE Str(whole))
       /\ ( /\ Len(words) > 1
            /\ SortTokens(words, compiledGroups) = words
            /\ twMerge(whole) = whole
            /\ input # whole ) => result = Str(whole)

\* C5 as stated (final decision, step 6): for a multi-token input,
\* format returns null if the resolver's collapsed output equals the
\* collapsed original, and the resolver's output otherwise.
C5_Original ==
  sorted =>
    LET output == collapseWhitespace(twMerge(JoinSpace(sortedTokens)))
    IN result = (IF output = collapseWhitespace(input) THEN Null ELSE Str(output))

\* C5 (final decision, amended): for a multi-token input, if the
\* resolver's collapsed output equals the collapsed original, format
\* returns null when the raw input equals its collapsed form and the
\* collapsed string otherwise; if the two differ it returns the
\* resolver's output.
C5_FinalDecision ==
  sorted =>
    LET output == collapseWhitespace(twMerge(JoinSpace(sortedTokens)))
        original == collapseWhitespace(input)
    IN result = (IF output # original THEN Str(output)
                 ELSE IF input = original THEN Null
                 ELSE Str(original))

\* A sorted, conflict-free class list with surrounding whitespace was
\* formatted: the resolver changed nothing, the collapsed string is
\* returned.
C5_Witness ==
  /\ sorted
  /\ merged = collapsed
  /\ input # collapsed
  /\ result = Str(collapsed)

\* The rearrangements of a sequence.
Rearrangements(seq) ==
  { [k \in DOMAIN seq |-> seq[f[k]]] :
      f \in { g \in [DOMAIN seq -> DOMAIN seq] :
                \A x, y \in DOMAIN seq : g[x] = g[y] => x = y } }

Cmp(a, b) == compareClasses(a, b, compiledGroups)

\* C6 (total order): on the tokens of a class list, compare(a,b) and
\* compare(b,a) have opposite signs, compare is transitive and is 0 only
\* for the same string; hence the sorted sequence depends only on the
\* multiset of the tokens, not on their input order.
C6_TotalOrder ==
  sorted =>
    /\ \A i, j \in DOMAIN tokens :
         /\ Sign(Cmp(tokens[i], tokens[j])) = -Sign(Cmp(tokens[j], tokens[i]))
         /\ Cmp(tokens[i], tokens[j]) = 0 => tokens[i] = tokens[j]
    /\ \A i, j, k \in DOMAIN tokens :
         (Cmp(tokens[i], tokens[j]) <= 0 /\ Cmp(tokens[j], tokens[k]) <= 0)
           => Cmp(tokens[i], tokens[k]) <= 0
    /\ \A other \in Rearrangements(tokens) :
         SortTokens(other, compiledGroups) = sortedTokens

\* Positions of a token in the sorted sequence.
SortedAt(token) == { k \in DOMAIN sortedTokens : sortedTokens[k] = token }

IsImportant(token) == removeImportantPrefix(token).important

Unmarked(token) == removeImportantPrefix(token).value

Count(ch, token, lo, hi) == Cardinality({ m \in lo..hi : token[m] = ch })

\* Position i lies inside brackets, counted from the end of the token:
\* some ] to its right is not opened between i and that ].
InBrackets(token, i) ==
  \E j \in (i + 1)..Len(token) :
    /\ token[j] = "]"
    /\ \A k \in (i + 1)..j : Count("]", token, k, j) > Count("[", token, k, j)

\* The colons of the token at bracket depth 0.
SplittingColons(token) ==
  { i \in DOMAIN token : token[i] = ":" /\ ~InBrackets(token, i) }

\* The suffix following the right-most colon at bracket depth 0, the
\* whole token if there is none.
UtilityOf(token) ==
  IF SplittingColons(token) = {} THEN token
  ELSE LET last == CHOOSE i \in SplittingColons(token) :
                     \A k \in SplittingColons(token) : k <= i
       IN SubSeq(token, last + 1, Len(token))

\* C9 (variant stripping): the base used to classify a token is, after
\* removal of a leading !, the suffix following the right-most colon at
\* bracket depth 0 (the whole token if there is none), colons inside
\* [...] never split it, and a token with variant prefixes gets the
\* group weight of its bare utility.
C9_VariantStripping ==
  (pc = "formatted" /\ tokens # <<>>) =>
    \A i \in DOMAIN tokens :
      LET n == normalizeToken(tokens[i], compiledGroups)
          utility == UtilityOf(Unmarked(tokens[i]))
      IN /\ n.base = utility
         /\ n.groupWeight = resolveGroupWeight(utility, compiledGroups)
         /\ \A j \in DOMAIN tokens :
              tokens[j] = utility =>
                normalizeToken(tokens[j], compiledGroups).groupWeight = n.groupWeight

\* A class list holding a bare utility, the utility behind a variant
\* with a colon inside brackets, and a utility whose arbitrary value
\* holds a colon, was formatted.
C9_Witness ==
  /\ sorted
  /\ \E i, j, k \in DOMAIN tokens :
       /\ tokens[i] = T_bg
       /\ tokens[j] = T_arb
       /\ tokens[k] = T_bgarb
       /\ BaseOf(T_arb) = T_bg
       /\ BaseOf(T_bgarb) = T_bgarb
       /\ normalizeToken(T_arb, compiledGroups).groupWeight
            = normalizeToken(T_bg, compiledGroups).groupWeight

\* C10 (group resolution): the compiled weights are 0..n-1 in
\* declaration order; resolveGroupWeight returns the weight of the first
\* group in registry order with a matcher matching the token, also when
\* a later group matches it too, and n when no group matches.
C10_GroupResolution ==
  /\ \A i \in DOMAIN compiledGroups : compiledGroups[i].weight = i - 1
  /\ Len(compiledGroups)
       = (IF groupDefinitions = <<>> THEN Len(defaultGroupDefinitions)
          ELSE Len(groupDefinitions))
  /\ \A i \in DOMAIN tokens :
       LET base == BaseOf(tokens[i])
           weight == resolveGroupWeight(base, compiledGroups)
           matching == { g \in DOMAIN compiledGroups :
                           GroupMatches(compiledGroups[g], base) }
       IN /\ matching = {} => weight = Len(compiledGroups)
          /\ matching # {} =>
               /\ weight + 1 \in matching
               /\ \A g \in matching : weight + 1 <= g

\* A class list with a token that two groups match and a token that no
\* group matches was formatted with a caller-supplied registry.
C10_Witness ==
  /\ pc = "formatted"
  /\ groupDefinitions # <<>>
  /\ \E i \in DOMAIN tokens :
       /\ Cardinality({ g \in DOMAIN compiledGroups :
                          GroupMatches(compiledGroups[g], BaseOf(tokens[i])) }) > 1
       /\ resolveGroupWeight(BaseOf(tokens[i]), compiledGroups) = 0
  /\ \E i \in DOMAIN tokens :
       resolveGroupWeight(BaseOf(tokens[i]), compiledGroups) = Len(compiledGroups)

\* The names of the groups of a registry, in order.
GroupNames(groups) == [i \in DOMAIN groups |-> groups[i].name]

\* C11 (custom group override): a formatter created with a non-empty
\* groupDefinitions list is bound to exactly those groups, in their
\* order, with no built-in group merged in; with an absent or empty list
\* it is bound to the built-in registry of fifteen groups.  With the
\* groups [^bg-], [.*] the class list "flex bg-a" becomes "bg-a flex".
C11_CustomGroupOverride ==
  /\ groupDefinitions # <<>> =>
       /\ GroupNames(compiledGroups) = GroupNames(groupDefinitions)
       /\ \A i \in DOMAIN compiledGroups :
            /\ compiledGroups[i].weight = i - 1
            /\ compiledGroups[i].regexes
                 = MapRegExp(groupDefinitions[i].matchers)
  /\ groupDefinitions = <<>> =>
       /\ Len(compiledGroups) = 15
       /\ GroupNames(compiledGroups) = GroupNames(defaultGroupDefinitions)
  /\ (pc = "formatted" /\ groupDefinitions = overrideGroupDefinitions
        /\ input = T_flex \o <<" ">> \o T_bg)
       => result = Str(T_bg \o <<" ">> \o T_flex)
  /\ (pc = "formatted" /\ groupDefinitions = <<>>
        /\ input = T_bg \o <<" ">> \o T_flex)
       => result = Str(T_flex \o <<" ">> \o T_bg)

\* "flex bg-a" was formatted with the groups [^bg-], [.*] and came out
\* as "bg-a flex".
C11_Witness ==
  /\ pc = "formatted"
  /\ groupDefinitions = overrideGroupDefinitions
  /\ input = T_flex \o <<" ">> \o T_bg
  /\ result = Str(T_bg \o <<" ">> \o T_flex)

\* Whether the last iteration of applyRegexEntry worked on an outer
\* match with a non-empty span.
OnOuterMatch == iteration.kind \notin {"none", "end", "empty"}

\* The entry the last iteration worked with.
IterationEntry == classRegex[iteration.entry]

\* C12 (single-pattern locator entry): for an entry without inner
\* pattern, what is emitted for an outer match is one class list, capture
\* group 1 of the outer pattern when the group is present (the whole
\* match otherwise), with the range of that capture.
C12_SingleEntryEmitsCapture ==
  (OnOuterMatch /\ IterationEntry.inner = "" /\ iteration.emitted # <<>>) =>
    LET m == iteration.outerMatch
        start == IF m.hasGroup THEN m.groupIndex ELSE m.index
        list == IF m.hasGroup THEN m.group ELSE m.full
    IN iteration.emitted = <<Match(start, start + Len(list), list)>>

\* The argument region of the last iteration: the text between the
\* opening parenthesis and the parenthesis that balances it.
RegionStart == iteration.openAbs + 1

RegionEnd == iteration.closeAbs

HasRegion == OnOuterMatch /\ iteration.openAbs >= 0 /\ iteration.closeAbs >= 0

\* The ranges of the matches the last iteration emitted.
EmittedRanges == { iteration.emitted[k].range : k \in DOMAIN iteration.emitted }

\* C13 (no-inner-pattern fallback): without inner pattern the engine
\* emits exactly one match per quoted string literal of the argument
\* region, with the range and the text between the quotes (an escaped
\* quote does not end the literal), and nothing else; the whole region is
\* emitted as one value only when it has no quoted literal.
C13_LiteralFallback ==
  (HasRegion /\ IterationEntry.inner = "") =>
    LET literals == QuotedLiterals(text, RegionStart, RegionEnd) IN
      IF literals # {}
      THEN /\ EmittedRanges = literals
           /\ Len(iteration.emitted) = Cardinality(literals)
           /\ \A k \in DOMAIN iteration.emitted :
                iteration.emitted[k].value
                  = SliceTo(text, iteration.emitted[k].range[1],
                            iteration.emitted[k].range[2])
      ELSE iteration.emitted
             = <<Match(RegionStart, RegionEnd,
                       SliceTo(text, RegionStart, RegionEnd))>>

\* C14 (quoted-string inner extraction): with the inner pattern of the
\* built-in entries, every range emitted for a call's argument region is
\* the content of a quoted string literal of that region; text of
\* unquoted arguments is never inside an emitted range.
C14_InnerMatchesAreLiterals ==
  (HasRegion /\ IterationEntry.inner = STRING_ARGUMENT_REGEX) =>
    EmittedRanges \subseteq QuotedLiterals(text, RegionStart, RegionEnd)

RECURSIVE OpaqueFrom(_, _, _)
\* The positions from i on that belong to a quoted part of str, the
\* quotes included: a quoted part runs from a quote to the next quote of
\* the same kind that is not escaped, or to the end of str.
OpaqueFrom(str, i, found) ==
  IF i >= Len(str) THEN found
  ELSE IF CharAt(str, i) \in QuoteChars THEN
    LET closing == { j \in (i + 1)..(Len(str) - 1) :
                       /\ CharAt(str, j) = CharAt(str, i)
                       /\ ~OddBackslashes(str, i + 1, j) }
    IN IF closing = {} THEN found \cup i..(Len(str) - 1)
       ELSE LET j == CHOOSE c \in closing : \A d \in closing : c <= d
            IN OpaqueFrom(str, j + 1, found \cup i..j)
  ELSE OpaqueFrom(str, i + 1, found)

\* The parenthesis that balances the one at position open: the first
\* unquoted ")" after which as many unquoted parentheses have been closed
\* as opened, -1 when there is none.
BalancingParen(str, open) ==
  LET opaque == OpaqueFrom(str, open + 1, {})
      plain(ch, p) == { k \in (open + 1)..p : k \notin opaque /\ CharAt(str, k) = ch }
      closing == { p \in (open + 1)..(Len(str) - 1) :
                     /\ p \notin opaque
                     /\ CharAt(str, p) = ")"
                     /\ Cardinality(plain(")", p)) = Cardinality(plain("(", p)) + 1 }
  IN IF closing = {} THEN -1 ELSE CHOOSE p \in closing : \A r \in closing : p <= r

\* C15 (balanced argument region): the scanner returns the first ")"
\* at which the depth of the parentheses outside quoted parts returns to
\* zero, the text inside "...", '...' and backquotes (each closed only by
\* its own unescaped quote) not being counted; when there is none, the
\* outer match is skipped: nothing is emitted for it and the loop goes on
\* behind the match.
C15_BalancedRegion ==
  (OnOuterMatch /\ iteration.openAbs >= 0) =>
    /\ iteration.closeAbs = BalancingParen(text, iteration.openAbs)
    /\ iteration.closeAbs < 0 =>
         /\ iteration.kind = "unbalanced"
         /\ iteration.emitted = <<>>
         /\ phase = "loop"
         /\ lastIndex = iteration.outerMatch.lastIndex

\* A region was found that holds a quoted ")" before the parenthesis
\* that closes it.
C15_Witness ==
  /\ HasRegion
  /\ \E p \in RegionStart..(RegionEnd - 1) :
       /\ CharAt(text, p) = ")"
       /\ p \in OpaqueFrom(text, RegionStart, {})

\* The least element of a non-empty set of positions.
First(positions) == CHOOSE p \in positions : \A r \in positions : p <= r

\* C16 as stated (locating the argument region): for every outer match
\* with a non-empty span the region starts at the first unescaped "("
\* at or after the start of the match in the source text, and the match
\* is skipped only when there is no such parenthesis.
C16_Original ==
  OnOuterMatch =>
    LET opening == { p \in iteration.outerMatch.index..(Len(text) - 1) :
                       CharAt(text, p) = "(" /\ ~OddBackslashes(text, 0, p) }
    IN IF opening = {} THEN iteration.kind = "noParen"
       ELSE iteration.kind # "noParen" /\ iteration.openAbs = First(opening)

\* C16 (locating the argument region, amended): for every outer match
\* with a non-empty span the region starts at the first "(" inside the
\* matched text, escaped or not; the match is skipped, and nothing is
\* emitted for it, exactly when the matched text holds no "(".
C16_RegionStart ==
  OnOuterMatch =>
    LET m == iteration.outerMatch
        opening == { p \in m.index..(m.lastIndex - 1) : CharAt(text, p) = "(" }
    IN IF opening = {}
       THEN iteration.kind = "noParen" /\ iteration.emitted = <<>>
       ELSE iteration.kind # "noParen" /\ iteration.openAbs = First(opening)

\* A region was opened at a "(" that follows a backslash and is not
\* the last "(" of the match.
C16_Witness ==
  /\ OnOuterMatch
  /\ iteration.openAbs > 0
  /\ CharAt(text, iteration.openAbs - 1) = "\\"
  /\ \E p \in (iteration.openAbs + 1)..(iteration.outerMatch.lastIndex - 1) :
       CharAt(text, p) = "("

RECURSIVE ExactInner(_, _, _, _, _)
\* For the inner matches of a region from lastIndex on, in order and the
\* empty ones left out: capture group 1 when present (the whole match
\* otherwise) with the range where it matched, offset being the start
\* of the region in the text.
ExactInner(target, regex, offset, from, out) ==
  LET m == RegExpExec(regex, target, from) IN
    IF ~m.found THEN out
    ELSE IF m.full = <<>> THEN ExactInner(target, regex, offset, m.lastIndex + 1, out)
    ELSE LET start == offset + (IF m.hasGroup THEN m.groupIndex ELSE m.index)
             list == IF m.hasGroup THEN m.group ELSE m.full
         IN ExactInner(target, regex, offset, m.lastIndex,
                       Append(out, Match(start, start + Len(list), list)))

\* C17 (inner-match ranges): for every inner-pattern match inside an
\* argument region the emitted value is capture group 1 if present (the
\* whole inner match otherwise), and the emitted range is the exact
\* location in the source text of the characters the group matched.
C17_InnerRangesExact ==
  (HasRegion /\ IterationEntry.inner # "") =>
    iteration.emitted
      = ExactInner(SliceTo(text, RegionStart, RegionEnd),
                   createRegExp(IterationEntry.inner), RegionStart, 0, <<>>)

\* C18 (per-entry deduplication): within one pass of one locator entry
\* over a text the engine never emits two matches with the same range,
\* also when a later outer match lies inside the argument region of an
\* earlier one, and also when the entry has no inner pattern.
C18_NoDuplicateRanges ==
  \A i, j \in DOMAIN emitted :
    (i < j /\ emitted[i].pass = emitted[j].pass
           /\ emitted[i].entry = emitted[j].entry)
      => emitted[i].range # emitted[j].range

\* Whether a pattern of the configuration is not a regular expression.
InvalidPattern ==
  \/ ~MatchersCompile(groupDefinitions)
  \/ \E k \in DOMAIN classRegex :
       \/ ~IsRegExpSource(classRegex[k].outer)
       \/ classRegex[k].inner # "" /\ ~IsRegExpSource(classRegex[k].inner)

\* C19 (fail-fast pattern errors): when a group matcher or a locator
\* pattern (outer or inner, of any entry) is not a valid pattern, the
\* error is raised before any extraction match is emitted and before
\* any report is made for the file.
C19_FailFast ==
  InvalidPattern => (emitted = <<>> /\ reports = <<>>)

\* C20 (single report per range): over the visitor events of one rule
\* run, in any order and number, each range is reported at most once, and
\* a range is reported only with a value whose format is not null and
\* differs from the value (a formatted class list is never reported);
\* the report carries that format.
C20_SingleReportPerRange ==
  /\ \A i, j \in DOMAIN reports : i < j => reports[i].range # reports[j].range
  /\ \A i \in DOMAIN reports :
       LET formatted == formatWithGroups(reports[i].value, compiledGroups).result
       IN /\ ~formatted.null
          /\ formatted.str # reports[i].value
          /\ reports[i].formatted = formatted.str
  /\ reportedRanges = { reports[i].range : i \in DOMAIN reports }

\* One visitor call and the passes of two exit handlers were made on
\* a text; both passes emitted the range of a literal, and it was
\* reported once.
C20_Witness ==
  /\ events = 3
  /\ passNo = 2
  /\ phase = "visiting"
  /\ Len(reports) = 1
  /\ \E i, j \in DOMAIN emitted :
       /\ emitted[i].pass # emitted[j].pass
       /\ emitted[i].range = reports[1].range
       /\ emitted[j].range = reports[1].range

\* The values of regex.lastIndex at the calls of exec in
\* processInnerMatches, when the last iteration called it.
InnerPositions ==
  IF iteration.kind = "inner"
  THEN InnerLoop(SliceTo(text, RegionStart, RegionEnd),
                 createRegExp(IterationEntry.inner), RegionStart, text,
                 0, {}, <<>>, <<>>).positions
  ELSE <<>>

StrictlyIncreasing(seq) == \A k \in 1..(Len(seq) - 1) : seq[k] < seq[k + 1]

\* The last iteration of the outer loop left lastIndex beyond the value
\* it started from unless it ended the loop, by one beyond the match
\* when the match was empty, and the inner loop it ran called exec
\* with strictly increasing values of lastIndex.
ScanAdvances ==
  /\ iteration.kind \notin {"none", "end"} => iteration.lastIndex > iteration.from
  /\ iteration.kind = "empty" =>
       iteration.lastIndex = iteration.outerMatch.index + 1
  /\ iteration.kind \in {"noParen", "unbalanced"} =>
       iteration.lastIndex = iteration.outerMatch.lastIndex
  /\ StrictlyIncreasing(InnerPositions)

\* The scan positions stay within one position beyond the end of the
\* text they scan.
ScanBounded ==
  /\ iteration.lastIndex <= Len(text) + 1
  /\ \A k \in DOMAIN InnerPositions :
       InnerPositions[k] <= RegionEnd - RegionStart + 1

\* C21: extraction terminates.  For every text and every locator entry
\* the scan positions of the outer and the inner loop strictly advance
\* on every iteration (by one after a zero-length match, to the end of
\* the match after a match without an opening parenthesis and after an
\* unbalanced region) and never pass the end of the scanned text by more
\* than one, so that each loop ends after at most as many iterations as
\* the text has positions and the pass finishes.
C21_ExtractionTerminates == ScanAdvances /\ ScanBounded

\* A pass over a text of two characters or more has finished after the
\* outer pattern matched the empty string at the end of the text.
C21_Witness ==
  /\ phase = "visiting"
  /\ passNo = 1
  /\ Len(text) >= 2
  /\ iteration.kind = "end"
  /\ iteration.from = Len(text) + 1

RECURSIVE ScanStrings(_, _, _, _, _, _, _)
\* The quoted strings of str[i..to) as the loop of findMatchingParenIndex
\* reads them: the ranges between the position after the quote where it
\* sets inString and the quote where it clears it (start is the former
\* while inString is set).
ScanStrings(str, i, to, inString, escaped, start, found) ==
  IF i >= to THEN found
  ELSE IF inString # ""
  THEN ScanStrings(str, i + 1, to,
                   IF ~escaped /\ CharAt(str, i) = inString THEN "" ELSE inString,
                   ~escaped /\ CharAt(str, i) = "\\", start,
                   IF ~escaped /\ CharAt(str, i) = inString
                   THEN found \cup {<<start, i>>} ELSE found)
  ELSE IF CharAt(str, i) \in QuoteChars
  THEN ScanStrings(str, i + 1, to, CharAt(str, i), FALSE, i + 1, found)
  ELSE ScanStrings(str, i + 1, to, "", FALSE, start, found)

\* The ranges of the literals extractStringLiterals yielded in the last
\* iteration (none when the whole region was emitted instead).
FallbackLiterals == IF iteration.kind = "literals" THEN EmittedRanges ELSE {}

\* C22: scanner agreement on quoted strings.  For every argument region
\* the balanced-parenthesis scanner delimits, the fallback literal
\* scanner yields exactly the quoted strings the parenthesis scanner
\* read in it: each literal begins after the quote where that scanner
\* entered string mode and ends at the quote where it left it, also when
\* backslashes precede the closing quote.
C22_ScannersAgree ==
  iteration.kind \in {"literals", "region"} =>
    FallbackLiterals = ScanStrings(text, RegionStart, RegionEnd, "", FALSE, 0, {})

====
